---- MODULE Spec2Model ----
(***************************************************************************)
(* Course-catalog service (src/app.py): the validator, the traced request  *)
(* handlers, the structured log records they emit and the JSON catalog     *)
(* file they read and rewrite.                                             *)
(*                                                                         *)
(* A Python string is a sequence of one-character strings, so that         *)
(* str.strip() is computed and not assumed.                                *)
(***************************************************************************)
EXTENDS Integers, Sequences, FiniteSets, TLC

VARIABLES
    file,     \* COURSE_FILE on disk: [exists, valid, data]
    file0,    \* the catalog file as it was when the service started
    reqs,     \* one record per request, in order of arrival
    serial,   \* TRUE: the server handles one request at a time
    vin,      \* validator harness: the record handed to validate_course
    vout      \* validator harness: what validate_course returned and flashed

vars == <<file, file0, reqs, serial, vin, vout>>

\* ---------------------------------------------------------------- bounds
MaxRequests == 2

\* --------------------------------------------------------------- strings
IsSpace(c) == c \in {" ", "\t", "\n"}

RECURSIVE lstrip(_)
lstrip(s) == IF s = <<>> THEN <<>>
             ELSE IF IsSpace(Head(s)) THEN lstrip(Tail(s)) ELSE s

RECURSIVE rstrip(_)
rstrip(s) == IF s = <<>> THEN <<>>
             ELSE IF IsSpace(s[Len(s)]) THEN rstrip(SubSeq(s, 1, Len(s) - 1)) ELSE s

strip(s) == rstrip(lstrip(s))

\* ---------------------------------------------------------------- courses
\* key order of the dict built by add_course
Fields == <<"code", "name", "instructor", "semester", "schedule",
            "classroom", "prerequisites", "grading", "description">>

FieldSet == {Fields[i] : i \in 1..Len(Fields)}

error_fields == <<"code", "name", "instructor">>

RequiredSet == {error_fields[i] : i \in 1..Len(error_fields)}

OptionalSet == FieldSet \ RequiredSet

\* ------------------------------------------------------------- validator
Flash(category, kind, fields) == [category |-> category, kind |-> kind, fields |-> fields]

EmptyKeys(data) == SelectSeq(Fields, LAMBDA f : strip(data[f]) = <<>>)

MissingRequired(data) == SelectSeq(error_fields, LAMBDA f : strip(data[f]) = <<>>)

validate_course_first_only(data) ==
    IF MissingRequired(data) # <<>>
    THEN [ret |-> "False",
          flashes |-> << Flash("error", "required", <<Head(MissingRequired(data))>>) >>]
    ELSE IF EmptyKeys(data) # <<>>
    THEN [ret |-> "warning",
          flashes |-> << Flash("warning", "empty", <<Head(EmptyKeys(data))>>) >>]
    ELSE [ret |-> "True", flashes |-> <<>>]

validate_course_scan_first(data) ==
    IF EmptyKeys(data) # <<>> /\ MissingRequired(data) = <<>>
    THEN [ret |-> "warning",
          flashes |-> << Flash("warning", "empty", EmptyKeys(data)) >>]
    ELSE IF EmptyKeys(data) # <<>>
    THEN [ret |-> "False",
          flashes |-> << Flash("warning", "empty", EmptyKeys(data)),
                         Flash("error", "required", <<Head(MissingRequired(data))>>) >>]
    ELSE [ret |-> "True", flashes |-> <<>>]

\* ret is "False" / "warning" / "True" for Python's False / "warning" / True
validate_course(data) ==
    IF MissingRequired(data) # <<>>
    THEN [ret |-> "False",
          flashes |-> << Flash("error", "required", <<Head(MissingRequired(data))>>) >>]
    ELSE IF EmptyKeys(data) # <<>>
    THEN [ret |-> "warning",
          flashes |-> << Flash("warning", "empty", EmptyKeys(data)) >>]
    ELSE [ret |-> "True", flashes |-> <<>>]


\* ------------------------------------------------------ validator harness
Values == {<<>>, <<" ">>, <<"x">>, <<" ", "x", "\t">>}

Courses == [FieldSet -> Values]

NoCourse == [f \in FieldSet |-> <<>>]

NoResult == [ret |-> "none", flashes |-> <<>>]

\* ------------------------------------------------------------ catalog file
NoFile == [exists |-> FALSE, valid |-> TRUE, data |-> <<>>]

JsonFile(courses) == [exists |-> TRUE, valid |-> TRUE, data |-> courses]

CorruptFile == [exists |-> TRUE, valid |-> FALSE, data |-> <<>>]

\* json.load raises on a file that is not valid JSON
load_raises(f) == f.exists /\ ~f.valid

load_courses(f) == IF ~f.exists THEN <<>> ELSE f.data

InitValidate ==
    /\ file = NoFile
    /\ file0 = NoFile
    /\ reqs = <<>>
    /\ serial = TRUE
    /\ vin \in Courses
    /\ vout = NoResult

Validate ==
    /\ vout = NoResult
    /\ vout' = validate_course(vin)
    /\ UNCHANGED <<file, file0, reqs, serial, vin>>

SpecValidate == InitValidate /\ [][Validate]_vars

\* a field that is empty after trimming, stated without str.strip
Blank(s) == \A i \in 1..Len(s) : IsSpace(s[i])

BlankOptional(data) == {f \in OptionalSet : Blank(data[f])}

SeqToSet(s) == {s[i] : i \in 1..Len(s)}

\* C1: a record with a required field that is empty after trimming is
\* rejected (False) whatever the optional fields hold, and the call produces
\* neither the warning outcome nor a warning notice.
C1_RejectedBeforeOptionalScan ==
    (vout # NoResult /\ \E f \in RequiredSet : Blank(vin[f]))
        => /\ vout.ret = "False"
           /\ \A i \in 1..Len(vout.flashes) : vout.flashes[i].category # "warning"
           /\ Len(vout.flashes) = 1
           /\ vout.flashes[1].category = "error"

C1_Witness ==
    /\ vout # NoResult
    /\ Blank(vin["instructor"]) /\ vin["instructor"] # <<>>
    /\ ~Blank(vin["code"]) /\ ~Blank(vin["name"])
    /\ Blank(vin["semester"])
    /\ vout.ret = "False"

\* C2: with the three required fields non-empty after trimming, the outcome
\* is "warning" exactly when some optional field is empty after trimming, the
\* fields reported are exactly the empty optional fields, each once, and with
\* every field non-empty the outcome is True.
C2_WarningExactFields ==
    (vout # NoResult /\ \A f \in RequiredSet : ~Blank(vin[f]))
        => /\ (vout.ret = "warning") <=> (BlankOptional(vin) # {})
           /\ (vout.ret = "True") <=> (BlankOptional(vin) = {})
           /\ vout.ret = "warning" =>
                /\ Len(vout.flashes) = 1
                /\ vout.flashes[1].category = "warning"
                /\ SeqToSet(vout.flashes[1].fields) = BlankOptional(vin)
                /\ Len(vout.flashes[1].fields) = Cardinality(BlankOptional(vin))
           /\ vout.ret = "True" => vout.flashes = <<>>

C2_Witness ==
    /\ vout # NoResult
    /\ vout.ret = "warning"
    /\ Blank(vin["semester"]) /\ vin["semester"] # <<>>
    /\ Blank(vin["grading"])
    /\ ~Blank(vin["schedule"])
    /\ Len(vout.flashes[1].fields) = 2


\* ------------------------------------------------------------------ spans
NoSpan == [name |-> "none", opened |-> 0, closed |-> 0, attrs |-> <<>>,
           events |-> <<>>, status |-> "Unset", msg |-> <<>>]

\* tracer.start_as_current_span(name, kind=SpanKind.SERVER)
start_span(name) == [NoSpan EXCEPT !.name = name, !.opened = 1]

set_attribute(span, k, v) ==
    [span EXCEPT !.attrs = [x \in (DOMAIN span.attrs) \cup {k} |->
                               IF x = k THEN v ELSE span.attrs[x]]]

add_event(span, name, severity) ==
    [span EXCEPT !.events = Append(@, [name |-> name, severity |-> severity])]

set_status(span, code, msg) == [span EXCEPT !.status = code, !.msg = msg]

span_exit_leak_on_raise(span, exc, override) ==
    IF exc = <<>> THEN [span EXCEPT !.closed = @ + 1] ELSE span

\* Leaving the `with` block: the span is ended on every exit.  exc is <<>> on
\* a normal exit or a return, and the exception's text when one propagates;
\* the tracer then records an Error status, except that a status already Ok
\* is kept or overridden depending on the tracing SDK in use (override).
span_exit(span, exc, override) ==
    IF exc = <<>> THEN [span EXCEPT !.closed = @ + 1]
    ELSE IF span.status = "Ok" /\ ~override THEN [span EXCEPT !.closed = @ + 1]
    ELSE [span EXCEPT !.closed = @ + 1, !.status = "Error", !.msg = exc]

\* --------------------------------------------------------------- requests
ClientIp == <<"127.0.0.1">>

NewReq(route, method, url) ==
    [route |-> route, method |-> method, url |-> url, ip |-> ClientIp,
     form |-> NoCourse, code |-> <<>>, pc |-> "run", span |-> NoSpan,
     logs |-> <<>>, flashes |-> <<>>, response |-> "none",
     validation |-> "none", saved |-> <<>>, snapshot |-> <<>>,
     raised |-> FALSE]

\* span.set_attribute of http.method, http.url, user.ip from the request
baseline(span, r) ==
    set_attribute(set_attribute(set_attribute(span,
        "http.method", r.method), "http.url", r.url), "user.ip", r.ip)

\* one logger call: the JSON object handed to logger.info/warning/error
LogRec(level, event, r, msg, code, name) ==
    [level |-> level, event |-> event, method |-> r.method, url |-> r.url,
     ip |-> r.ip, msg |-> msg, code |-> code, name |-> name]

log(r, level, event, msg, code, name) ==
    [r EXCEPT !.logs = Append(@, LogRec(level, event, r, msg, code, name))]

\* the handler returns: the `with` block (if any) is left normally
Return(r, response) ==
    [r EXCEPT !.pc = "done", !.response = response,
              !.span = IF @.opened = 1 THEN span_exit(@, <<>>, FALSE) ELSE @]

\* an exception leaves the `with` block and the handler
Raise(r, exc, override) ==
    [r EXCEPT !.pc = "done", !.response = "500", !.raised = TRUE,
              !.span = IF @.opened = 1 THEN span_exit(@, exc, override) ELSE @]

RequiredMsg == <<"Required fields are empty">>

WarningMsg == <<"Some fields are empty">>

NotFoundMsg(code) == <<"No course found with code '">> \o code \o <<"'.">>

FoundMsg(code) == <<"Course found with code '">> \o code \o <<"'">>

AddedMsg(name) == <<"Course '">> \o name \o <<"' added successfully">>

IOErrorMsg == <<"JSONDecodeError">>

RenderErrorMsg == <<"TemplateNotFound">>


\* --------------------------------------------------------------- handlers
\* index(): one Info record, no span
index(r) == Return(log(r, "INFO", "render-index", <<>>, <<>>, <<>>), "index.html")

\* course_catalog(), up to and including load_courses()
catalog_opened(r) == [r EXCEPT !.span = baseline(start_span("render-course-catalog"), r)]

\* course_catalog(), from the loaded list to render_template
catalog_loaded(r, courses) ==
    [r EXCEPT !.span = set_attribute(set_attribute(catalog_opened(r).span,
                           "course_loading.time", "t"), "courses.count", Len(courses))]

course_catalog(r, courses) ==
    LET r1 == catalog_loaded(r, courses)
        r2 == [r1 EXCEPT !.span = set_attribute(@, "processing.time", "t")]
    IN  log(Return(r2, "course_catalog.html"),
            "INFO", "render-course-catalog", <<>>, <<>>, <<>>)

\* add_course(), GET branch
add_course_get_opened(r) == [r EXCEPT !.span = baseline(start_span("render-add-course"), r)]

add_course_get(r) == Return(add_course_get_opened(r), "add_course.html")

\* add_course(), POST branch up to the outcome of validate_course
add_course_validated(r, form) ==
    LET v == validate_course(form)
    IN  [r EXCEPT !.form = form,
                  !.validation = v.ret,
                  !.flashes = @ \o v.flashes,
                  !.span = set_attribute(baseline(start_span("add-course"), r),
                                         "validation.time", "t")]

add_course_rejected_no_status(r) ==
    LET r1 == log(r, "ERROR", "course-add-error", RequiredMsg, <<>>, <<>>)
    IN  [r1 EXCEPT !.span = set_attribute(@, "error.message", RequiredMsg)]

\* add_course(), the `validation == False` branch before render_template
add_course_rejected(r) ==
    LET r1 == log(r, "ERROR", "course-add-error", RequiredMsg, <<>>, <<>>)
    IN  [r1 EXCEPT !.span = set_status(set_attribute(@, "error.message", RequiredMsg),
                                       "Error", RequiredMsg)]

add_course_warning_as_error(r) ==
    LET r1 == log(r, "WARNING", "course-add-warning", WarningMsg, <<>>, <<>>)
    IN  [r1 EXCEPT !.span = set_status(add_event(
                       set_attribute(set_attribute(@, "course.code", r.form["code"]),
                                     "warning.message", WarningMsg),
                       "Potential issue detected", "warning"), "Error", WarningMsg)]

\* add_course(), the `validation == "warning"` branch
add_course_warning(r) ==
    LET r1 == log(r, "WARNING", "course-add-warning", WarningMsg, <<>>, <<>>)
    IN  [r1 EXCEPT !.span = add_event(
                       set_attribute(set_attribute(@, "course.code", r.form["code"]),
                                     "warning.message", WarningMsg),
                       "Potential issue detected", "warning")]

\* add_course(), an accepted record up to the call of save_courses(course)
add_course_accepted(r) ==
    LET r1 == IF r.validation = "warning" THEN add_course_warning(r) ELSE r
    IN  [r1 EXCEPT !.span = set_attribute(@, "course.code", r.form["code"]),
                   !.saved = Append(@, r.form)]

save_courses_write_only_new(courses, data) == <<data>>

save_courses_write_unique_code(courses, data) ==
    SelectSeq(courses, LAMBDA c : c["code"] # data["code"]) \o <<data>>

\* save_courses(): courses.append(data), the list json.dump then writes
save_courses_write(courses, data) == Append(courses, data)

\* add_course(), after save_courses returned
add_course_saved(r) ==
    LET r1 == [r EXCEPT !.span = set_attribute(@, "save.time", "t")]
        r2 == log(r1, "INFO", "course-added", <<>>, r.form["code"], r.form["name"])
        r3 == [r2 EXCEPT !.span = set_status(@, "Ok", AddedMsg(r.form["name"])),
                         !.flashes = Append(@, Flash("success", "added", <<>>))]
    IN  Return(r3, "redirect:course_catalog")

\* course_details(): next((c for c in courses if c['code'] == code), None)
Matches(courses, code) == SelectSeq(courses, LAMBDA c : c["code"] = code)

course_details_opened(r, code) ==
    [r EXCEPT !.code = code, !.span = start_span("view-course-details")]

course_details_not_found_renders(r) ==
    LET m  == NotFoundMsg(r.code)
        r1 == [r EXCEPT !.flashes = Append(@, Flash("error", "notfound", <<>>))]
        r2 == log(r1, "ERROR", "view-course-details-error", m, <<>>, <<>>)
        r3 == [r2 EXCEPT !.span = set_status(set_attribute(baseline(
                   set_attribute(@, "error.message", m), r), "course.code", r.code),
                   "Error", m)]
    IN  Return(r3, "course_details.html")

\* course_details(), the `if not course` branch
course_details_not_found(r) ==
    LET m  == NotFoundMsg(r.code)
        r1 == [r EXCEPT !.flashes = Append(@, Flash("error", "notfound", <<>>))]
        r2 == log(r1, "ERROR", "view-course-details-error", m, <<>>, <<>>)
        r3 == [r2 EXCEPT !.span = set_status(set_attribute(baseline(
                   set_attribute(@, "error.message", m), r), "course.code", r.code),
                   "Error", m)]
    IN  Return(r3, "redirect:course_catalog")

\* course_details(), a course was found, up to render_template
course_details_found(r, course) ==
    LET r1 == log(r, "INFO", "view-course-details", <<>>, course["code"], course["name"])
    IN  [r1 EXCEPT !.span = set_status(set_attribute(set_attribute(baseline(@, r),
                       "course.code", course["code"]), "course.name", course["name"]),
                       "Ok", FoundMsg(r.code))]

\* contact(): the Info record comes before the span
contact_opened(r) ==
    LET r1 == log(r, "INFO", "render-contact", <<>>, <<>>, <<>>)
    IN  [r1 EXCEPT !.span = baseline(start_span("render-contact"), r)]

contact(r) ==
    LET r1 == contact_opened(r)
        r2 == [r1 EXCEPT !.span = set_status(set_attribute(@, "processing.time", "t"),
                                             "Ok", <<"Contact page rendered successfully">>)]
    IN  Return(r2, "contact.html")

\* manual_trace(): http.method and http.url only, then one event
manual_trace(r) ==
    LET sp == set_attribute(set_attribute(start_span("manual-span"),
                  "http.method", r.method), "http.url", r.url)
    IN  Return([r EXCEPT !.span = add_event(sp, "Processing request", "none")],
               "Manual trace recorded!")

auto_instrumented(r) == Return(r, "This route is auto-instrumented!")

\* the URL rules registered with @app.route
Routes == {"index", "course_catalog", "add_course", "course_details",
           "contact", "manual_trace", "auto_instrumented"}


\* ----------------------------------------------------------------- inputs
Form(code, instructor, semester) ==
    [f \in FieldSet |->
        CASE f = "code" -> code
          [] f = "name" -> <<"n">>
          [] f = "instructor" -> instructor
          [] f = "semester" -> semester
          [] OTHER -> <<"x">>]

\* the submissions tried: missing and blank required fields, empty optional
\* field, a code with leading whitespace, codes that repeat
Forms == {Form(c, i, t) : c \in {<<>>, <<"A">>, <<" ", "B">>},
                          i \in {<<" ">>, <<"i">>},
                          t \in {<<>>, <<"s">>}}

Codes == {<<"A">>, <<"B">>}

Stored == Form(<<"A">>, <<"j">>, <<"s">>)

\* ------------------------------------------------------------ transitions
Init ==
    /\ file0 \in {NoFile, JsonFile(<<Stored>>)}
    /\ file = file0
    /\ reqs = <<>>
    /\ serial \in BOOLEAN
    /\ vin = NoCourse
    /\ vout = NoResult

InitFaults ==
    /\ file0 \in {NoFile, JsonFile(<<Stored>>), CorruptFile}
    /\ file = file0
    /\ reqs = <<>>
    /\ serial \in BOOLEAN
    /\ vin = NoCourse
    /\ vout = NoResult

InFlight == {i \in 1..Len(reqs) : reqs[i].pc # "done"}

CanStart == Len(reqs) < MaxRequests /\ (serial => InFlight = {})

Finish(r) ==
    /\ reqs' = Append(reqs, r)
    /\ UNCHANGED <<file, file0, serial, vin, vout>>

Index ==
    /\ CanStart
    /\ Finish(index(NewReq("index", "GET", <<"/">>)))

CatalogReq == NewReq("course_catalog", "GET", <<"/catalog">>)

Catalog ==
    /\ CanStart
    /\ ~load_raises(file)
    /\ Finish(course_catalog(CatalogReq, load_courses(file)))

CatalogLoadFails ==
    /\ CanStart
    /\ load_raises(file)
    /\ Finish(Raise(catalog_opened(CatalogReq), IOErrorMsg, FALSE))

CatalogRenderFails ==
    /\ CanStart
    /\ ~load_raises(file)
    /\ Finish(Raise(catalog_loaded(CatalogReq, load_courses(file)), RenderErrorMsg, FALSE))

AddGetReq == NewReq("add_course", "GET", <<"/add_course">>)

AddGet ==
    /\ CanStart
    /\ Finish(add_course_get(AddGetReq))

AddGetRenderFails ==
    /\ CanStart
    /\ Finish(Raise(add_course_get_opened(AddGetReq), RenderErrorMsg, FALSE))

AddPostReq(form) == add_course_validated(NewReq("add_course", "POST", <<"/add_course">>), form)

AddPostRejected(form) ==
    /\ CanStart
    /\ AddPostReq(form).validation = "False"
    /\ Finish(Return(add_course_rejected(AddPostReq(form)), "add_course.html"))

AddPostRejectedRenderFails(form) ==
    /\ CanStart
    /\ AddPostReq(form).validation = "False"
    /\ Finish(Raise(add_course_rejected(AddPostReq(form)), RenderErrorMsg, FALSE))

\* an accepted submission, up to save_courses having read the catalog file
AddPostLoad(form) ==
    /\ CanStart
    /\ AddPostReq(form).validation # "False"
    /\ ~load_raises(file)
    /\ reqs' = Append(reqs, [add_course_accepted(AddPostReq(form)) EXCEPT
                                !.pc = "saving", !.snapshot = load_courses(file)])
    /\ UNCHANGED <<file, file0, serial, vin, vout>>

AddPostLoadFails(form) ==
    /\ CanStart
    /\ AddPostReq(form).validation # "False"
    /\ load_raises(file)
    /\ Finish(Raise(add_course_accepted(AddPostReq(form)), IOErrorMsg, FALSE))

\* save_courses rewrites the file from its own copy of the list, and the
\* handler finishes
AddPostWrite(i) ==
    /\ reqs[i].pc = "saving"
    /\ file' = JsonFile(save_courses_write(reqs[i].snapshot, reqs[i].form))
    /\ reqs' = [reqs EXCEPT ![i] = add_course_saved(@)]
    /\ UNCHANGED <<file0, serial, vin, vout>>

DetailsReq(code) ==
    course_details_opened(NewReq("course_details", "GET", <<"/course/">> \o code), code)

DetailsFound(code) ==
    /\ CanStart
    /\ ~load_raises(file)
    /\ Matches(load_courses(file), code) # <<>>
    /\ Finish(Return(course_details_found(DetailsReq(code),
                        Head(Matches(load_courses(file), code))), "course_details.html"))

DetailsNotFound(code) ==
    /\ CanStart
    /\ ~load_raises(file)
    /\ Matches(load_courses(file), code) = <<>>
    /\ Finish(course_details_not_found(DetailsReq(code)))

DetailsLoadFails(code) ==
    /\ CanStart
    /\ load_raises(file)
    /\ Finish(Raise(DetailsReq(code), IOErrorMsg, FALSE))

DetailsRenderFails(code) ==
    /\ CanStart
    /\ ~load_raises(file)
    /\ Matches(load_courses(file), code) # <<>>
    /\ \E override \in BOOLEAN :
         Finish(Raise(course_details_found(DetailsReq(code),
                        Head(Matches(load_courses(file), code))), RenderErrorMsg, override))

ContactReq == NewReq("contact", "GET", <<"/contact">>)

Contact ==
    /\ CanStart
    /\ Finish(contact(ContactReq))

ContactRenderFails ==
    /\ CanStart
    /\ Finish(Raise(contact_opened(ContactReq), RenderErrorMsg, FALSE))

ManualTrace ==
    /\ CanStart
    /\ Finish(manual_trace(NewReq("manual_trace", "GET", <<"/manual-trace">>)))

AutoInstrumented ==
    /\ CanStart
    /\ Finish(auto_instrumented(NewReq("auto_instrumented", "GET", <<"/auto-instrumented">>)))

\* a delete-by-code request: no URL rule of the application matches it, so
\* no view function runs and the framework answers 404
DeleteReq(code) ==
    [NewReq("delete_course", "POST", <<"/delete_course/">> \o code) EXCEPT !.code = code]

NoRoute(code) ==
    /\ CanStart
    /\ DeleteReq(code).route \notin Routes
    /\ Finish([DeleteReq(code) EXCEPT !.pc = "done", !.response = "404"])

NextOK ==
    \/ Index
    \/ Catalog
    \/ AddGet
    \/ \E form \in Forms : AddPostRejected(form)
    \/ \E form \in Forms : AddPostLoad(form)
    \/ \E i \in 1..Len(reqs) : AddPostWrite(i)
    \/ \E code \in Codes : DetailsFound(code)
    \/ \E code \in Codes : DetailsNotFound(code)
    \/ Contact
    \/ ManualTrace
    \/ AutoInstrumented
    \/ \E code \in Codes : NoRoute(code)

NextFaults ==
    \/ NextOK
    \/ CatalogLoadFails
    \/ CatalogRenderFails
    \/ AddGetRenderFails
    \/ \E form \in Forms : AddPostRejectedRenderFails(form)
    \/ \E form \in Forms : AddPostLoadFails(form)
    \/ \E code \in Codes : DetailsLoadFails(code)
    \/ \E code \in Codes : DetailsRenderFails(code)
    \/ ContactRenderFails

\* collaborators (catalog file, renderer) that do not fail
Spec == Init /\ [][NextOK]_vars

\* the same service with a corrupt catalog file and failing renders
SpecFaults == InitFaults /\ [][NextFaults]_vars

TypeOK ==
    /\ \A i \in 1..Len(reqs) :
         /\ reqs[i].pc \in {"saving", "done"}
         /\ reqs[i].span.opened \in {0, 1}
    /\ Len(reqs) <= MaxRequests


\* ------------------------------------------------------------- properties
Done(i) == reqs[i].pc = "done"

IsAddPost(r) == r.route = "add_course" /\ r.method = "POST"

LogsAt(r, level) == SelectSeq(r.logs, LAMBDA l : l.level = level)

LogsOf(r, event) == SelectSeq(r.logs, LAMBDA l : l.event = event)

HasAttr(r, k, v) == k \in DOMAIN r.span.attrs /\ r.span.attrs[k] = v

Traced == {"course_catalog", "add_course", "course_details", "contact", "manual_trace"}

\* the request that arrived in this step, if one did
Arrived == IF Len(reqs') = Len(reqs) + 1 THEN {Len(reqs')} ELSE {}

\* C3: every span a traced handler opens is closed exactly once on every exit
\* of its block (fall-through, early return, exception); a finished request
\* has as many closed spans as opened ones and no span is closed twice.
C3_SpanClosedExactlyOnce ==
    \A i \in 1..Len(reqs) :
        /\ reqs[i].span.closed <= reqs[i].span.opened
        /\ Done(i) => reqs[i].span.closed = reqs[i].span.opened
        /\ (Done(i) /\ reqs[i].route \in Traced) => reqs[i].span.closed = 1
        /\ ~Done(i) => reqs[i].span.closed = 0

C3_Witness ==
    /\ \E i \in 1..Len(reqs) :
         reqs[i].raised /\ reqs[i].span.opened = 1 /\ reqs[i].span.closed = 1
    /\ \E j \in 1..Len(reqs) :
         /\ ~reqs[j].raised /\ reqs[j].validation = "False"
         /\ reqs[j].span.opened = 1 /\ reqs[j].span.closed = 1

C4_RejectedState ==
    \A i \in 1..Len(reqs) :
        (IsAddPost(reqs[i]) /\ reqs[i].validation = "False") =>
            /\ Done(i)
            /\ Len(LogsAt(reqs[i], "ERROR")) = 1
            /\ LogsAt(reqs[i], "ERROR")[1].event = "course-add-error"
            /\ HasAttr(reqs[i], "error.message", LogsAt(reqs[i], "ERROR")[1].msg)
            /\ reqs[i].span.status = "Error"
            /\ reqs[i].span.closed = 1
            /\ reqs[i].saved = <<>>
            /\ LogsOf(reqs[i], "course-added") = <<>>
            /\ LogsAt(reqs[i], "INFO") = <<>>
            /\ reqs[i].response = "add_course.html"

C4_RejectedStep ==
    \A i \in Arrived :
        (IsAddPost(reqs'[i]) /\ reqs'[i].validation = "False") => file' = file

\* C4: a rejected Add Course submission emits exactly one Error record
\* (course-add-error), its span gets error.message and ends with status Error,
\* save_courses is not called and the catalog file is untouched, no
\* course-added record is emitted, and the add form is returned, not the
\* redirect.
C4_RejectedNeverStored == []C4_RejectedState /\ [][C4_RejectedStep]_vars

C4_Witness ==
    \E i \in 1..Len(reqs) :
        /\ IsAddPost(reqs[i]) /\ reqs[i].validation = "False"
        /\ Blank(reqs[i].form["instructor"]) /\ ~Blank(reqs[i].form["code"])
        /\ reqs[i].response = "add_course.html"
        /\ load_courses(file) # <<>>

\* C5: a submission accepted with a warning emits exactly one Warning record
\* (course-add-warning), its span gets warning.message, course.code and one
\* warning event and never the Error status, and save_courses is called
\* exactly once, with the submitted course.
C5_WarningStillStored ==
    \A i \in 1..Len(reqs) :
        (IsAddPost(reqs[i]) /\ reqs[i].validation = "warning") =>
            /\ Len(LogsAt(reqs[i], "WARNING")) = 1
            /\ LogsAt(reqs[i], "WARNING")[1].event = "course-add-warning"
            /\ LogsAt(reqs[i], "ERROR") = <<>>
            /\ HasAttr(reqs[i], "warning.message", LogsAt(reqs[i], "WARNING")[1].msg)
            /\ HasAttr(reqs[i], "course.code", reqs[i].form["code"])
            /\ Len(reqs[i].span.events) = 1
            /\ reqs[i].span.events[1].severity = "warning"
            /\ reqs[i].span.status # "Error"
            /\ reqs[i].saved = <<reqs[i].form>>
            /\ Done(i) => /\ reqs[i].span.status = "Ok"
                          /\ Len(LogsOf(reqs[i], "course-added")) = 1
                          /\ reqs[i].response = "redirect:course_catalog"

C5_Witness ==
    \E i \in 1..Len(reqs) :
        /\ IsAddPost(reqs[i]) /\ reqs[i].validation = "warning" /\ Done(i)
        /\ reqs[i].span.status = "Ok"
        /\ \E k \in 1..Len(load_courses(file)) : load_courses(file)[k] = reqs[i].form

InCatalog(f, code) == \E k \in 1..Len(load_courses(f)) : load_courses(f)[k]["code"] = code

DetailsNotFoundOutcome(r) ==
    /\ r.pc = "done"
    /\ Len(LogsAt(r, "ERROR")) = 1
    /\ LogsAt(r, "ERROR")[1].event = "view-course-details-error"
    /\ LogsAt(r, "ERROR")[1].msg = NotFoundMsg(r.code)
    /\ r.span.status = "Error"
    /\ r.span.msg = NotFoundMsg(r.code)
    /\ HasAttr(r, "error.message", NotFoundMsg(r.code))
    /\ r.span.closed = 1
    /\ r.response = "redirect:course_catalog"

DetailsFoundOutcome(r) ==
    /\ r.pc = "done"
    /\ LogsAt(r, "ERROR") = <<>>
    /\ r.span.status = "Ok"
    /\ r.span.closed = 1
    /\ r.response = "course_details.html"

\* C6: a Course Details request for a code no course of the catalog has emits
\* exactly one Error record (view-course-details-error), ends its span with
\* status Error and the message "No course found with code '<code>'." (also
\* the log message and error.message), leaves the catalog file as it is and
\* redirects to the catalog; when a course has the code, no Error record is
\* emitted and the span ends Ok.
C6_DetailsNotFound ==
    [][\A i \in Arrived :
         reqs'[i].route = "course_details" =>
            /\ ~InCatalog(file, reqs'[i].code) =>
                   DetailsNotFoundOutcome(reqs'[i]) /\ file' = file
            /\ InCatalog(file, reqs'[i].code) => DetailsFoundOutcome(reqs'[i])]_vars

C6_Witness ==
    /\ load_courses(file) # <<>>
    /\ \E i \in 1..Len(reqs) :
         /\ reqs[i].route = "course_details"
         /\ reqs[i].code = <<"B">>
         /\ reqs[i].span.msg = <<"No course found with code '", "B", "'.">>
         /\ reqs[i].response = "redirect:course_catalog"

\* C7 (as claimed): a finished delete-by-code request leaves no course with
\* that code in the catalog, has emitted one Info record course-deleted and
\* carries course.code on its span.
C7_DeleteRemovesCourse ==
    \A i \in 1..Len(reqs) :
        (reqs[i].route = "delete_course" /\ Done(i)) =>
            /\ ~InCatalog(file, reqs[i].code)
            /\ Len(LogsOf(reqs[i], "course-deleted")) = 1
            /\ HasAttr(reqs[i], "course.code", reqs[i].code)

RECURSIVE AcceptedForms(_)
AcceptedForms(rs) ==
    IF rs = <<>> THEN <<>>
    ELSE LET r == Head(rs)
         IN  (IF IsAddPost(r) /\ r.pc = "done" /\ r.validation \in {"True", "warning"}
              THEN <<r.form>> ELSE <<>>) \o AcceptedForms(Tail(rs))

IsPrefix(a, b) == Len(a) <= Len(b) /\ SubSeq(b, 1, Len(a)) = a

C8_CatalogState == serial => load_courses(file) = load_courses(file0) \o AcceptedForms(reqs)

C8_CatalogStep == serial => IsPrefix(load_courses(file), load_courses(file'))

\* C8: with submissions handled one at a time, the catalog is the initial
\* catalog followed by the accepted submissions (with or without warning) in
\* submission order, each stored field for field as submitted; entries already
\* there are never changed, moved or removed, and a repeated code is appended
\* like any other.
C8_CatalogIsAppendOnly == []C8_CatalogState /\ [][C8_CatalogStep]_vars

C8_Witness ==
    /\ serial
    /\ Len(load_courses(file)) = 3
    /\ load_courses(file)[1] = Stored
    /\ load_courses(file)[2]["code"] = <<"A">>
    /\ load_courses(file)[3]["code"] = <<" ", "B">>
    /\ load_courses(file)[3]["semester"] = <<>>

\* C9 (as claimed): every span that has been closed carries http.method,
\* http.url and user.ip of its request.
C9_BaselineAttributes ==
    \A i \in 1..Len(reqs) :
        reqs[i].span.closed >= 1 =>
            /\ HasAttr(reqs[i], "http.method", reqs[i].method)
            /\ HasAttr(reqs[i], "http.url", reqs[i].url)
            /\ HasAttr(reqs[i], "user.ip", reqs[i].ip)

Succeeded == {i \in 1..Len(reqs) :
                 IsAddPost(reqs[i]) /\ Done(i) /\ reqs[i].response = "redirect:course_catalog"}

\* fewer courses on file than the initial ones plus the reported successes
LostUpdate == Len(load_courses(file)) < Len(load_courses(file0)) + Cardinality(Succeeded)

\* C10: a catalog that lacks a course whose add request reported success is
\* reached only when requests overlap; handled strictly one after the other,
\* every reported success is on file, and no more courses than successes are.
C10_LostUpdateOnlyWhenConcurrent ==
    /\ LostUpdate => ~serial
    /\ Len(load_courses(file)) <= Len(load_courses(file0)) + Cardinality(Succeeded)

C10_Witness ==
    /\ ~serial
    /\ Cardinality(Succeeded) = 2
    /\ Len(load_courses(file)) = Len(load_courses(file0)) + 1
    /\ \E i \in Succeeded :
         \A k \in 1..Len(load_courses(file)) : load_courses(file)[k] # reqs[i].form

====
